---- MODULE Spec2Model ----
(***************************************************************************)
(* The text segmenter of prlist: src/src/text.rs, fn parse.                *)
(*                                                                         *)
(* parse scans its input one character at a time with a three-state        *)
(* machine (Init, InParagraph, InListEntry), pushes TextElements onto a    *)
(* result vector and flushes the open state at the end of the input.       *)
(*                                                                         *)
(* A character is a one-character string, a String is a sequence of        *)
(* characters, a TextElement is a record [variant, text].                  *)
(***************************************************************************)
EXTENDS Integers, Sequences, FiniteSets, TLC

VARIABLES raw, pos, state, result, pc

vars == <<raw, pos, state, result, pc>>

-----------------------------------------------------------------------------
(* Characters *)

NL   == "\n"
SP   == " "
TAB  == "\t"
DASH == "-"
STAR == "*"

\* The characters of the model: the four the code names, one further
\* whitespace character (is_whitespace is true of it, but it is not ' '),
\* and two ordinary characters.
Alphabet == {NL, SP, TAB, DASH, STAR, "a", "b"}

\* char::is_whitespace, restricted to Alphabet
IsWhitespace(c) == c \in {NL, SP, TAB}

\* the pattern '-' | '*'
IsMarker(c) == c \in {DASH, STAR}

-----------------------------------------------------------------------------
(* Bounds *)

\* longest input of Spec
MaxLen == 5

\* most pieces of a document
MaxPieces == 3

\* all Strings of at most n characters
Strings(n) == UNION {[1..k -> Alphabet] : k \in 0..n}

\* what documents are made of: a prose line, a prose line with a trailing
\* space, a bullet, two bullets (the second with whitespace around its
\* marker), and the empty line
Fragments ==
    { <<"a">>, <<"b", SP>>, <<DASH, "a">>,
      <<DASH, "a", NL, SP, STAR, TAB, "b">>, <<>> }

\* what ends a fragment: nothing, a line break, a blank line
Terminators == { <<>>, <<NL>>, <<NL, NL>> }

Pieces == { f \o t : f \in Fragments, t \in Terminators }

RECURSIVE Concat(_)
Concat(ps) == IF ps = <<>> THEN <<>> ELSE Head(ps) \o Concat(Tail(ps))

\* longer inputs with the structure of a description: up to n pieces
Documents(n) == UNION {{Concat(ps) : ps \in [1..k -> Pieces]} : k \in 0..n}

\* the inputs parse is run on: every short String, and the documents
Inputs == Strings(MaxLen) \cup Documents(MaxPieces)

-----------------------------------------------------------------------------
(* enum TextElement *)

Paragraph(t) == [variant |-> "Paragraph", text |-> t]
ListEntry(t) == [variant |-> "ListEntry", text |-> t]

(* enum State *)

StInit == [kind |-> "Init"]
StInParagraph(t, l) == [kind |-> "InParagraph", text |-> t, last |-> l]
StInListEntry(t, s) == [kind |-> "InListEntry", text |-> t, text_started |-> s]

\* one iteration's outcome: the next state and the elements pushed
Out(st, pushed) == [state |-> st, push |-> pushed]

-----------------------------------------------------------------------------
(* The arms of the match in the loop body *)

\* InitArm with only '-' taken for a marker
InitArm_DashOnly(c) ==
    CASE c \in {NL, SP} -> Out(StInit, <<>>)
      [] c = DASH       -> Out(StInListEntry(<<>>, FALSE), <<>>)
      [] OTHER          -> Out(StInParagraph(<<c>>, c), <<>>)

\* InitArm with the newline left out of the skipped characters
InitArm_SkipsOnlySpace(c) ==
    CASE c = SP      -> Out(StInit, <<>>)
      [] IsMarker(c) -> Out(StInListEntry(<<>>, FALSE), <<>>)
      [] OTHER       -> Out(StInParagraph(<<c>>, c), <<>>)

\* State::Init => match c
InitArm(c) ==
    CASE c \in {NL, SP} -> Out(StInit, <<>>)
      [] IsMarker(c)    -> Out(StInListEntry(<<>>, FALSE), <<>>)
      [] OTHER          -> Out(StInParagraph(<<c>>, c), <<>>)

\* InParagraphArm with no space pushed for a folded line break
InParagraphArm_NoFoldSpace(st, c) ==
    CASE c = NL /\ st.last = NL ->
            Out(StInit, <<Paragraph(st.text)>>)
      [] c = NL ->
            Out(StInParagraph(st.text, NL), <<>>)
      [] c = SP /\ st.last = NL ->
            Out(st, <<>>)
      [] IsMarker(c) /\ st.last = NL ->
            Out(StInListEntry(<<>>, FALSE), <<Paragraph(st.text)>>)
      [] OTHER ->
            Out(StInParagraph(Append(st.text, c), c), <<>>)

\* InParagraphArm with the paragraph break taken for a folded line break
InParagraphArm_NoBreak(st, c) ==
    CASE c = NL ->
            Out(StInParagraph(st.text, NL), <<>>)
      [] c = SP /\ st.last = NL ->
            Out(st, <<>>)
      [] IsMarker(c) /\ st.last = NL ->
            Out(StInListEntry(<<>>, FALSE), <<Paragraph(st.text)>>)
      [] OTHER ->
            LET folded == IF st.last = NL THEN Append(st.text, SP) ELSE st.text
            IN  Out(StInParagraph(Append(folded, c), c), <<>>)

\* InParagraphArm with a marker after a line break taken for text
InParagraphArm_NoListBreak(st, c) ==
    CASE c = NL /\ st.last = NL ->
            Out(StInit, <<Paragraph(st.text)>>)
      [] c = NL ->
            Out(StInParagraph(st.text, NL), <<>>)
      [] c = SP /\ st.last = NL ->
            Out(st, <<>>)
      [] OTHER ->
            LET folded == IF st.last = NL THEN Append(st.text, SP) ELSE st.text
            IN  Out(StInParagraph(Append(folded, c), c), <<>>)

\* InParagraphArm with the line break itself pushed for a folded line break
InParagraphArm_FoldsToNewline(st, c) ==
    CASE c = NL /\ st.last = NL ->
            Out(StInit, <<Paragraph(st.text)>>)
      [] c = NL ->
            Out(StInParagraph(st.text, NL), <<>>)
      [] c = SP /\ st.last = NL ->
            Out(st, <<>>)
      [] IsMarker(c) /\ st.last = NL ->
            Out(StInListEntry(<<>>, FALSE), <<Paragraph(st.text)>>)
      [] OTHER ->
            LET folded == IF st.last = NL THEN Append(st.text, NL) ELSE st.text
            IN  Out(StInParagraph(Append(folded, c), c), <<>>)

\* InParagraphArm with the space of a fold pushed at the line break itself
InParagraphArm_EagerFold(st, c) ==
    CASE c = NL /\ st.last = NL ->
            Out(StInit, <<Paragraph(st.text)>>)
      [] c = NL ->
            Out(StInParagraph(Append(st.text, SP), NL), <<>>)
      [] c = SP /\ st.last = NL ->
            Out(st, <<>>)
      [] IsMarker(c) /\ st.last = NL ->
            Out(StInListEntry(<<>>, FALSE), <<Paragraph(st.text)>>)
      [] OTHER ->
            Out(StInParagraph(Append(st.text, c), c), <<>>)

\* InParagraphArm with the paragraph not pushed when a marker ends it
InParagraphArm_ListBreakDropsParagraph(st, c) ==
    CASE c = NL /\ st.last = NL ->
            Out(StInit, <<Paragraph(st.text)>>)
      [] c = NL ->
            Out(StInParagraph(st.text, NL), <<>>)
      [] c = SP /\ st.last = NL ->
            Out(st, <<>>)
      [] IsMarker(c) /\ st.last = NL ->
            Out(StInListEntry(<<>>, FALSE), <<>>)
      [] OTHER ->
            LET folded == IF st.last = NL THEN Append(st.text, SP) ELSE st.text
            IN  Out(StInParagraph(Append(folded, c), c), <<>>)

\* InParagraphArm with a skipped space recorded as the last character
InParagraphArm_SpaceClearsPending(st, c) ==
    CASE c = NL /\ st.last = NL ->
            Out(StInit, <<Paragraph(st.text)>>)
      [] c = NL ->
            Out(StInParagraph(st.text, NL), <<>>)
      [] c = SP /\ st.last = NL ->
            Out(StInParagraph(st.text, SP), <<>>)
      [] IsMarker(c) /\ st.last = NL ->
            Out(StInListEntry(<<>>, FALSE), <<Paragraph(st.text)>>)
      [] OTHER ->
            LET folded == IF st.last = NL THEN Append(st.text, SP) ELSE st.text
            IN  Out(StInParagraph(Append(folded, c), c), <<>>)

\* State::InParagraph { text: ref mut s, ref mut last } => match c
InParagraphArm(st, c) ==
    CASE c = NL /\ st.last = NL ->
            Out(StInit, <<Paragraph(st.text)>>)
      [] c = NL ->
            Out(StInParagraph(st.text, NL), <<>>)
      [] c = SP /\ st.last = NL ->
            Out(st, <<>>)
      [] IsMarker(c) /\ st.last = NL ->
            Out(StInListEntry(<<>>, FALSE), <<Paragraph(st.text)>>)
      [] OTHER ->
            LET folded == IF st.last = NL THEN Append(st.text, SP) ELSE st.text
            IN  Out(StInParagraph(Append(folded, c), c), <<>>)

\* InListEntryArm with only plain spaces skipped after the marker
InListEntryArm_SkipsOnlySpace(st, c) ==
    CASE c = NL ->
            Out(StInit, <<ListEntry(st.text)>>)
      [] st.text_started ->
            Out(StInListEntry(Append(st.text, c), st.text_started), <<>>)
      [] c = SP ->
            Out(st, <<>>)
      [] OTHER ->
            Out(StInListEntry(Append(st.text, c), TRUE), <<>>)

\* InListEntryArm with the first character of the text not pushed
InListEntryArm_DropsFirst(st, c) ==
    CASE c = NL ->
            Out(StInit, <<ListEntry(st.text)>>)
      [] st.text_started ->
            Out(StInListEntry(Append(st.text, c), st.text_started), <<>>)
      [] IsWhitespace(c) ->
            Out(st, <<>>)
      [] OTHER ->
            Out(StInListEntry(st.text, TRUE), <<>>)

\* InListEntryArm with whitespace skipped after the text has started too
InListEntryArm_SkipsAllWhitespace(st, c) ==
    CASE c = NL ->
            Out(StInit, <<ListEntry(st.text)>>)
      [] IsWhitespace(c) ->
            Out(st, <<>>)
      [] OTHER ->
            Out(StInListEntry(Append(st.text, c), TRUE), <<>>)

\* InListEntryArm with the whitespace arm tried before the newline arm
InListEntryArm_WhitespaceFirst(st, c) ==
    CASE ~st.text_started /\ IsWhitespace(c) ->
            Out(st, <<>>)
      [] c = NL ->
            Out(StInit, <<ListEntry(st.text)>>)
      [] st.text_started ->
            Out(StInListEntry(Append(st.text, c), st.text_started), <<>>)
      [] OTHER ->
            Out(StInListEntry(Append(st.text, c), TRUE), <<>>)

\* State::InListEntry { ref mut text, ref mut text_started } => match c
InListEntryArm(st, c) ==
    CASE c = NL ->
            Out(StInit, <<ListEntry(st.text)>>)
      [] st.text_started ->
            Out(StInListEntry(Append(st.text, c), st.text_started), <<>>)
      [] IsWhitespace(c) ->
            Out(st, <<>>)
      [] OTHER ->
            Out(StInListEntry(Append(st.text, c), TRUE), <<>>)

\* the loop body: match state
StepChar(st, c) ==
    CASE st.kind = "Init"        -> InitArm(c)
      [] st.kind = "InParagraph" -> InParagraphArm(st, c)
      [] st.kind = "InListEntry" -> InListEntryArm(st, c)

\* EndOfInput with an open paragraph lost at the end of the input
EndOfInput_DropsParagraph(st) ==
    CASE st.kind = "Init"        -> <<>>
      [] st.kind = "InParagraph" -> <<>>
      [] st.kind = "InListEntry" -> <<ListEntry(st.text)>>

\* EndOfInput with a pending line break flushed as a folded one
EndOfInput_FoldsPending(st) ==
    CASE st.kind = "Init"        -> <<>>
      [] st.kind = "InParagraph" ->
            <<Paragraph(IF st.last = NL THEN Append(st.text, SP) ELSE st.text)>>
      [] st.kind = "InListEntry" -> <<ListEntry(st.text)>>

\* EndOfInput with nothing flushed: the open element is lost
EndOfInput_NoFlush(st) == <<>>

\* EndOfInput with an empty list entry suppressed
EndOfInput_SuppressesEmpty(st) ==
    CASE st.kind = "Init"        -> <<>>
      [] st.kind = "InParagraph" -> <<Paragraph(st.text)>>
      [] st.kind = "InListEntry" ->
            IF st.text = <<>> THEN <<>> ELSE <<ListEntry(st.text)>>

\* the match after the loop: the elements the open state is flushed as
EndOfInput(st) ==
    CASE st.kind = "Init"        -> <<>>
      [] st.kind = "InParagraph" -> <<Paragraph(st.text)>>
      [] st.kind = "InListEntry" -> <<ListEntry(st.text)>>

-----------------------------------------------------------------------------
(* parse as a function of its input *)

\* the machine after the first n characters of s: [state, result]
RECURSIVE Scan(_, _)
Scan(s, n) ==
    IF n = 0
    THEN [state |-> StInit, result |-> <<>>]
    ELSE LET m == Scan(s, n - 1)
             o == StepChar(m.state, s[n])
         IN  [state |-> o.state, result |-> m.result \o o.push]

Parse(s) ==
    LET m == Scan(s, Len(s))
    IN  m.result \o EndOfInput(m.state)

-----------------------------------------------------------------------------
(* parse as a state machine: one step per loop iteration *)

Init ==
    /\ raw \in Inputs
    /\ pos = 1
    /\ state = StInit
    /\ result = <<>>
    /\ pc = "scan"

\* the loop body applied to the next character
Advance(o) ==
    /\ state' = o.state
    /\ result' = result \o o.push
    /\ pos' = pos + 1
    /\ UNCHANGED <<raw, pc>>

StepInit ==
    /\ pc = "scan"
    /\ pos <= Len(raw)
    /\ state.kind = "Init"
    /\ Advance(InitArm(raw[pos]))

StepInParagraph ==
    /\ pc = "scan"
    /\ pos <= Len(raw)
    /\ state.kind = "InParagraph"
    /\ Advance(InParagraphArm(state, raw[pos]))

\* StepInListEntry with no arm for whitespace before the text has started
StepInListEntry_NoWhitespaceArm ==
    /\ pc = "scan"
    /\ pos <= Len(raw)
    /\ state.kind = "InListEntry"
    /\ state.text_started \/ raw[pos] = NL \/ ~IsWhitespace(raw[pos])
    /\ Advance(InListEntryArm(state, raw[pos]))

StepInListEntry ==
    /\ pc = "scan"
    /\ pos <= Len(raw)
    /\ state.kind = "InListEntry"
    /\ Advance(InListEntryArm(state, raw[pos]))

\* the iterator is exhausted: flush the open state and return
Flush ==
    /\ pc = "scan"
    /\ pos > Len(raw)
    /\ result' = result \o EndOfInput(state)
    /\ pc' = "done"
    /\ UNCHANGED <<raw, pos, state>>

Next ==
    \/ StepInit
    \/ StepInParagraph
    \/ StepInListEntry
    \/ Flush

Spec == Init /\ [][Next]_vars

\* parse has returned
Done == pc = "done"

-----------------------------------------------------------------------------
TypeOK ==
    /\ \A i \in 1..Len(raw) : raw[i] \in Alphabet
    /\ pos \in 1..(Len(raw) + 1)
    /\ pc \in {"scan", "done"}
    /\ state.kind \in {"Init", "InParagraph", "InListEntry"}

\* the machine and the function agree
MachineIsParse == Done => result = Parse(raw)

-----------------------------------------------------------------------------
(* Helpers of the properties *)

\* the characters of s from i to its end
From(s, i) == SubSeq(s, i, Len(s))

\* raw has a blank line at k: two consecutive newlines
BreakAt(k) == k \in 1..(Len(raw) - 1) /\ raw[k] = NL /\ raw[k + 1] = NL

Paragraphs(r) == {i \in 1..Len(r) : r[i].variant = "Paragraph"}
ListEntries(r) == {i \in 1..Len(r) : r[i].variant = "ListEntry"}

\* the position of the first newline of s, 0 when it has none
RECURSIVE FirstNL(_, _)
FirstNL(s, i) ==
    IF i > Len(s) THEN 0
    ELSE IF s[i] = NL THEN i
    ELSE FirstNL(s, i + 1)

\* s split at every newline: "a\n\nb\n" is <<"a", "", "b", "">>
RECURSIVE SplitLines(_)
SplitLines(s) ==
    LET k == FirstNL(s, 1)
    IN  IF k = 0 THEN <<s>>
        ELSE <<SubSeq(s, 1, k - 1)>> \o SplitLines(From(s, k + 1))

\* the lines ls joined with the character sep between them
RECURSIVE JoinWith(_, _)
JoinWith(ls, sep) ==
    IF Len(ls) = 0 THEN <<>>
    ELSE IF Len(ls) = 1 THEN ls[1]
    ELSE ls[1] \o <<sep>> \o JoinWith(Tail(ls), sep)

\* s with every newline replaced by one space
NewlinesToSpaces(s) == [i \in 1..Len(s) |-> IF s[i] = NL THEN SP ELSE s[i]]

\* a line that begins with a character that is neither whitespace nor a marker
ProseLine(l) == l # <<>> /\ ~IsWhitespace(l[1]) /\ ~IsMarker(l[1])

\* a line with a character that is not whitespace
NonBlank(l) == \E i \in 1..Len(l) : ~IsWhitespace(l[i])

\* the number of plain spaces l begins with
RECURSIVE LeadingSpaces(_, _)
LeadingSpaces(l, i) ==
    IF i <= Len(l) /\ l[i] = SP THEN LeadingSpaces(l, i + 1) ELSE i - 1

\* the position of the first non-whitespace character of l from i on, 0 if none
RECURSIVE FirstContent(_, _)
FirstContent(l, i) ==
    IF i > Len(l) THEN 0
    ELSE IF ~IsWhitespace(l[i]) THEN i
    ELSE FirstContent(l, i + 1)

\* a bullet line: plain spaces, one marker, whitespace, then content that
\* starts with a non-whitespace character
MarkerLine(l) ==
    LET m == LeadingSpaces(l, 1) + 1
    IN  /\ m <= Len(l)
        /\ IsMarker(l[m])
        /\ FirstContent(l, m + 1) # 0

\* the content of a bullet line
MarkerContent(l) == From(l, FirstContent(l, LeadingSpaces(l, 1) + 2))

-----------------------------------------------------------------------------
(* C1 *)

\* C1: whenever the input is a ++ "\n\n" ++ b, the result is parse(a)
\* followed by parse(b), whatever state a leaves the machine in.
C1_BlankLineJoin ==
    Done => \A k \in 1..Len(raw) :
                BreakAt(k) =>
                    result = Parse(SubSeq(raw, 1, k - 1)) \o Parse(From(raw, k + 2))

\* a leaves the machine in InParagraph with a pending newline, b is a
\* bullet: both halves contribute an element
C1_Witness ==
    /\ Done
    /\ \E k \in 1..Len(raw) :
          /\ BreakAt(k)
          /\ k > 2
          /\ raw[k - 1] = NL
          /\ Scan(raw, k - 1).state.kind = "InParagraph"
          /\ Parse(From(raw, k + 2)) # <<>>
    /\ Len(result) = 2
    /\ result[2].variant = "ListEntry"

-----------------------------------------------------------------------------
(* C2 *)

\* C2: every Paragraph returned has a text whose first and last characters
\* are not whitespace.
C2_ParagraphTrimmed ==
    Done => \A i \in Paragraphs(result) :
                /\ result[i].text # <<>>
                /\ ~IsWhitespace(result[i].text[1])
                /\ ~IsWhitespace(result[i].text[Len(result[i].text)])

-----------------------------------------------------------------------------
(* C3 *)

\* an input with no newline that is non-whitespace content with no leading
\* or trailing space
SingleLine(s) ==
    /\ s # <<>>
    /\ \A i \in 1..Len(s) : s[i] # NL
    /\ ~IsWhitespace(s[1])
    /\ ~IsWhitespace(s[Len(s)])

\* C3 as stated: every such input yields exactly Paragraph(input).
C3_SingleLineIsParagraph_Orig ==
    (Done /\ SingleLine(raw)) => result = <<Paragraph(raw)>>

\* C3, amended: every such input that does not begin with a marker yields
\* exactly Paragraph(input).
C3_SingleLineIsParagraph ==
    (Done /\ SingleLine(raw) /\ ~IsMarker(raw[1])) => result = <<Paragraph(raw)>>

\* a single line with inner whitespace and an inner marker
C3_Witness ==
    /\ Done
    /\ SingleLine(raw)
    /\ ~IsMarker(raw[1])
    /\ \E i \in 1..Len(raw) : raw[i] = SP
    /\ \E i \in 1..Len(raw) : IsMarker(raw[i])
    /\ result = <<Paragraph(raw)>>

-----------------------------------------------------------------------------
(* C4 *)

\* raw without its final newline, if it has one
Body(s) == IF s # <<>> /\ s[Len(s)] = NL THEN SubSeq(s, 1, Len(s) - 1) ELSE s

\* n >= 1 prose lines joined by single newlines, with or without one final
\* newline
FoldedLines(s) == \A i \in 1..Len(SplitLines(Body(s))) : ProseLine(SplitLines(Body(s))[i])

\* C4: prose lines joined by single newlines yield exactly one Paragraph,
\* the lines joined by single spaces.
C4_SingleNewlinesFold ==
    (Done /\ FoldedLines(raw)) =>
        result = <<Paragraph(JoinWith(SplitLines(Body(raw)), SP))>>

\* three lines have been folded into one paragraph
C4_Witness ==
    /\ Done
    /\ FoldedLines(raw)
    /\ Len(SplitLines(Body(raw))) = 3
    /\ SplitLines(Body(raw))[1] # SplitLines(Body(raw))[2]
    /\ Len(result) = 1
    /\ Len(result[1].text) = Len(Body(raw))

-----------------------------------------------------------------------------
(* C5 *)

\* the position of the first blank line of s from i on, 0 when it has none
RECURSIVE FirstBreak(_, _)
FirstBreak(s, i) ==
    IF i >= Len(s) THEN 0
    ELSE IF s[i] = NL /\ s[i + 1] = NL THEN i
    ELSE FirstBreak(s, i + 1)

\* s is a sequence of blocks, each followed by two newlines
RECURSIVE EveryBlockEnded(_)
EveryBlockEnded(s) ==
    \/ s = <<>>
    \/ LET k == FirstBreak(s, 1)
       IN  k # 0 /\ EveryBlockEnded(From(s, k + 2))

\* the blocks of such an s
RECURSIVE SplitBlocks(_)
SplitBlocks(s) ==
    LET k == FirstBreak(s, 1)
    IN  IF s = <<>> \/ k = 0 THEN <<>>
        ELSE <<SubSeq(s, 1, k - 1)>> \o SplitBlocks(From(s, k + 2))

\* a line whose first character after its leading plain spaces is a marker
MarkerInitial(l) ==
    LET m == LeadingSpaces(l, 1) + 1
    IN  m <= Len(l) /\ IsMarker(l[m])

\* a line of a prose block, as C5 states it: non-blank, not marker-initial
BlockLine_Orig(l) == NonBlank(l) /\ ~MarkerInitial(l)

\* a line of a prose block, amended: nor does it begin with a plain space
BlockLine(l) == NonBlank(l) /\ ~MarkerInitial(l) /\ l[1] # SP

\* n >= 1 blocks of lines that satisfy LineOK, each followed by two newlines
BlocksForm(s, LineOK(_)) ==
    /\ s # <<>>
    /\ EveryBlockEnded(s)
    /\ \A i \in 1..Len(SplitBlocks(s)) :
          \A j \in 1..Len(SplitLines(SplitBlocks(s)[i])) :
              LineOK(SplitLines(SplitBlocks(s)[i])[j])

\* one Paragraph per block, its newlines replaced by spaces
BlockParagraphs(s) ==
    [i \in 1..Len(SplitBlocks(s)) |-> Paragraph(NewlinesToSpaces(SplitBlocks(s)[i]))]

\* C5 as stated: n blocks of non-blank, non-marker-initial lines, each
\* followed by two newlines, yield the n Paragraphs of the blocks.
C5_BlankLineSplits_Orig ==
    (Done /\ BlocksForm(raw, BlockLine_Orig)) => result = BlockParagraphs(raw)

\* C5, amended: n blocks of non-blank lines that begin neither with a
\* marker nor with a plain space, each followed by two newlines, yield the n
\* Paragraphs of the blocks, in order, newlines replaced by spaces.
C5_BlankLineSplits ==
    (Done /\ BlocksForm(raw, BlockLine)) => result = BlockParagraphs(raw)

\* two blocks, one of them of two lines, have become two paragraphs
C5_Witness ==
    /\ Done
    /\ BlocksForm(raw, BlockLine)
    /\ Len(SplitBlocks(raw)) = 2
    /\ \E i \in 1..2 : Len(SplitLines(SplitBlocks(raw)[i])) = 2
    /\ Len(result) = 2
    /\ result[1] # result[2]

-----------------------------------------------------------------------------
(* C6 *)

\* n >= 1 bullet lines, each terminated by a newline
MarkerLines(s) ==
    /\ s # <<>>
    /\ s[Len(s)] = NL
    /\ \A i \in 1..Len(SplitLines(Body(s))) : MarkerLine(SplitLines(Body(s))[i])

\* C6: n bullet lines yield n ListEntry elements in order, each the content
\* of its line without the marker and the whitespace around it.
C6_MarkerLinesAreEntries ==
    (Done /\ MarkerLines(raw)) =>
        result = [i \in 1..Len(SplitLines(Body(raw))) |->
                    ListEntry(MarkerContent(SplitLines(Body(raw))[i]))]

\* two bullet lines, one with a space before and whitespace that is not a
\* plain space after its marker, have become two entries
C6_Witness ==
    /\ Done
    /\ MarkerLines(raw)
    /\ Len(SplitLines(Body(raw))) = 2
    /\ \E i \in 1..2 :
          LET l == SplitLines(Body(raw))[i]
          IN  l[1] = SP /\ \E j \in 1..Len(l) : l[j] = TAB /\ j < FirstContent(l, 3)
    /\ Len(result) = 2
    /\ result[1] # result[2]

-----------------------------------------------------------------------------
(* C7 *)

\* '-' and '*' exchanged
SwapChar(c) == IF c = DASH THEN STAR ELSE IF c = STAR THEN DASH ELSE c
SwapString(s) == [i \in 1..Len(s) |-> SwapChar(s[i])]
SwapResult(r) ==
    [i \in 1..Len(r) |-> [variant |-> r[i].variant, text |-> SwapString(r[i].text)]]

\* no text of r holds a marker
NoMarkerInTexts(r) ==
    \A i \in 1..Len(r) : \A j \in 1..Len(r[i].text) : ~IsMarker(r[i].text[j])

\* C7: parse of the input with '-' and '*' exchanged is the result with
\* '-' and '*' exchanged in its texts; it is the same result when no text
\* holds a marker.
C7_MarkersInterchangeable ==
    Done => /\ Parse(SwapString(raw)) = SwapResult(result)
            /\ NoMarkerInTexts(result) => Parse(SwapString(raw)) = result

\* an input with a marker opening a list entry after a paragraph, and a
\* marker inside a text
C7_Witness ==
    /\ Done
    /\ SwapString(raw) # raw
    /\ Len(result) = 2
    /\ result[1].variant = "Paragraph"
    /\ result[2].variant = "ListEntry"
    /\ ~NoMarkerInTexts(result)

-----------------------------------------------------------------------------
(* C8 *)

\* what a line is: empty, prose, a bullet, or something else
LineKind(l) ==
    CASE l = <<>>      -> "empty"
      [] ProseLine(l)  -> "prose"
      [] MarkerLine(l) -> "bullet"
      [] OTHER         -> "other"

\* the number of consecutive lines of ls from i on that are of kind k
RECURSIVE CountRun(_, _, _)
CountRun(ls, i, k) ==
    IF i <= Len(ls) /\ LineKind(ls[i]) = k THEN 1 + CountRun(ls, i + 1, k) ELSE 0

\* raw as newlines, a prose block, newlines, bullet lines, newlines, a prose
\* block, newlines: where each part begins and how many lines it has
Mixed(s) ==
    LET ls == SplitLines(s)
        e0 == CountRun(ls, 1, "empty")
        p1 == CountRun(ls, e0 + 1, "prose")
        e1 == CountRun(ls, e0 + p1 + 1, "empty")
        m  == CountRun(ls, e0 + p1 + e1 + 1, "bullet")
        e2 == CountRun(ls, e0 + p1 + e1 + m + 1, "empty")
        p2 == CountRun(ls, e0 + p1 + e1 + m + e2 + 1, "prose")
        e3 == CountRun(ls, e0 + p1 + e1 + m + e2 + p2 + 1, "empty")
    IN  [ lines |-> ls,
          first |-> e0 + 1, p1 |-> p1, e1 |-> e1,
          bullets |-> e0 + p1 + e1 + 1, m |-> m, e2 |-> e2,
          second |-> e0 + p1 + e1 + m + e2 + 1, p2 |-> p2,
          total |-> e0 + p1 + e1 + m + e2 + p2 + e3 ]

\* raw is a prose block, then k >= 1 bullet lines, then a prose block, the
\* boundaries being one newline or any number of blank lines
MixedForm(s) ==
    LET x == Mixed(s)
    IN  x.p1 >= 1 /\ x.m >= 1 /\ x.p2 >= 1 /\ x.total = Len(x.lines)

\* the k + 2 elements of such an input
MixedElements(s) ==
    LET x == Mixed(s)
    IN  <<Paragraph(JoinWith(SubSeq(x.lines, x.first, x.first + x.p1 - 1), SP))>>
        \o [i \in 1..x.m |-> ListEntry(MarkerContent(x.lines[x.bullets + i - 1]))]
        \o <<Paragraph(JoinWith(SubSeq(x.lines, x.second, x.second + x.p2 - 1), SP))>>

\* s with one more newline in the run of newlines at k
Lengthen(s, k) == SubSeq(s, 1, k) \o <<NL>> \o From(s, k + 1)

\* C8: a prose block, k bullet lines, a prose block yield Paragraph, k
\* ListEntry, Paragraph whatever the number of newlines at the two
\* boundaries; and lengthening a run of two or more newlines of any input
\* does not change the result.
C8_BlankLineCountIrrelevant ==
    Done => /\ MixedForm(raw) => result = MixedElements(raw)
            /\ \A k \in 1..Len(raw) : BreakAt(k) => Parse(Lengthen(raw, k)) = result

\* paragraph, two bullets, paragraph, with a blank line at one boundary and
\* a single newline at the other
C8_Witness ==
    /\ Done
    /\ MixedForm(raw)
    /\ Mixed(raw).m = 2
    /\ Mixed(raw).e1 + Mixed(raw).e2 = 1
    /\ \E k \in 1..Len(raw) : BreakAt(k)
    /\ Len(result) = 4

-----------------------------------------------------------------------------
(* C9 *)

\* C9: parse(x) equals parse(x ++ "\n"): the end of the input flushes the
\* open element as a terminating newline would have.
C9_NoTrailingNewlineNeeded ==
    Done => Parse(Append(raw, NL)) = result

\* the input ends inside a paragraph of two folded lines, with a pending
\* line break
C9_Witness ==
    /\ Done
    /\ state.kind = "InParagraph"
    /\ state.last = NL
    /\ \E i \in 1..(Len(raw) - 1) : raw[i] = NL
    /\ result = <<Paragraph(state.text)>>
    /\ Len(state.text) = Len(raw) - 1

-----------------------------------------------------------------------------
(* C10 *)

\* the steps parse has still to take: one per character not yet consumed,
\* and the flush
Remaining == IF Done THEN 0 ELSE (Len(raw) + 1 - pos) + 1

\* C10: parse is total. In every state that is not the returned one a step
\* is defined; every step of the loop consumes exactly one character of the
\* unchanged input; and the steps left decrease by one with every step, so
\* the flush and the return are reached after Len(raw) + 1 steps.
C10_Total ==
    /\ [](Done \/ ENABLED Next)
    /\ [](Remaining >= 0)
    /\ [][Remaining' = Remaining - 1]_vars
    /\ [][raw' = raw /\ (pc' = "scan" => pos' = pos + 1)]_vars
    /\ [][pc' = "done" => pos = Len(raw) + 1 /\ pos' = pos]_vars

\* parse has returned from an input of markers only, all of it consumed
C10_Witness ==
    /\ Done
    /\ Len(raw) >= 2
    /\ \A i \in 1..Len(raw) : IsMarker(raw[i])
    /\ pos = Len(raw) + 1
    /\ Len(result) = 1

-----------------------------------------------------------------------------
(* C11 *)

\* a character that is neither whitespace nor a marker
IsContent(c) == ~IsWhitespace(c) /\ ~IsMarker(c)

\* C11: an input with a character that is neither whitespace nor a marker
\* yields at least one element, and the empty input yields none.
C11_EmptyOnlyWithoutContent ==
    Done => /\ (\E i \in 1..Len(raw) : IsContent(raw[i])) => result # <<>>
            /\ raw = <<>> => result = <<>>

\* the only content of the input comes last, after skipped characters, and
\* is flushed as the one element
C11_Witness ==
    /\ Done
    /\ Len(raw) >= 3
    /\ IsContent(raw[Len(raw)])
    /\ \A i \in 1..(Len(raw) - 1) : raw[i] \in {NL, SP}
    /\ result = <<Paragraph(<<raw[Len(raw)]>>)>>

-----------------------------------------------------------------------------
(* C12 *)

\* C12: no text of a returned element holds a newline; nor does the
\* accumulator of the open state, at any point of the scan.
C12_NoNewlineInText ==
    /\ \A i \in 1..Len(result) :
          \A j \in 1..Len(result[i].text) : result[i].text[j] # NL
    /\ state.kind # "Init" =>
          \A j \in 1..Len(state.text) : state.text[j] # NL

\* a paragraph of folded lines and a list entry have been returned from an
\* input with three newlines
C12_Witness ==
    /\ Done
    /\ Cardinality({i \in 1..Len(raw) : raw[i] = NL}) >= 3
    /\ Len(result) = 2
    /\ result[1].variant = "Paragraph"
    /\ \E j \in 1..Len(result[1].text) : result[1].text[j] = SP
    /\ result[2].variant = "ListEntry"
    /\ result[2].text # <<>>

-----------------------------------------------------------------------------
(* C13 *)

\* the characters of s that are neither whitespace nor markers, in order
Content(s) == SelectSeq(s, IsContent)

\* the texts of r, one after the other
RECURSIVE Texts(_)
Texts(r) == IF r = <<>> THEN <<>> ELSE Head(r).text \o Texts(Tail(r))

\* C13: the non-whitespace, non-marker characters of the returned texts,
\* read in output order, are those of the input in input order.
C13_ContentConserved ==
    Done => Content(Texts(result)) = Content(raw)

\* both ordinary characters, in two elements of different variants
C13_Witness ==
    /\ Done
    /\ Len(result) >= 2
    /\ \E i, j \in 1..Len(result) :
          /\ i < j
          /\ result[i].variant # result[j].variant
          /\ Content(result[i].text) # <<>>
          /\ Content(result[j].text) # <<>>
          /\ Content(result[i].text) # Content(result[j].text)
    /\ \E i \in 1..Len(raw) : raw[i] = "a"
    /\ \E i \in 1..Len(raw) : raw[i] = "b"
    /\ Len(Content(raw)) >= 3

-----------------------------------------------------------------------------
(* C14 *)

\* a line that is a marker, after plain spaces, followed by whitespace only
BareBullet(l) ==
    MarkerInitial(l) /\ FirstContent(l, LeadingSpaces(l, 1) + 2) = 0

IsListEntry(e) == e.variant = "ListEntry"

\* C14: every Paragraph has a non-empty text; an element with an empty text
\* is a ListEntry; and the k-th ListEntry is empty exactly when the k-th
\* line that begins with a marker has only whitespace after the marker, up
\* to its newline or the end of the input: such a line is not suppressed,
\* and nothing else yields an empty text.
C14_EmptyOnlyFromBareMarker ==
    Done =>
        LET entries == SelectSeq(result, IsListEntry)
            bullets == SelectSeq(SplitLines(raw), MarkerInitial)
        IN  /\ \A i \in 1..Len(result) :
                  result[i].text = <<>> => result[i].variant = "ListEntry"
            /\ Len(entries) = Len(bullets)
            /\ \A k \in 1..Len(entries) :
                  entries[k].text = <<>> <=> BareBullet(bullets[k])

\* two empty list entries, the first ended by its newline, the second, with
\* whitespace after its marker, by the end of the input
C14_Witness ==
    /\ Done
    /\ Len(result) = 2
    /\ result[1] = ListEntry(<<>>)
    /\ result[2] = ListEntry(<<>>)
    /\ state = StInListEntry(<<>>, FALSE)
    /\ IsWhitespace(raw[Len(raw)])
    /\ raw[Len(raw)] # NL

-----------------------------------------------------------------------------
(* C15 *)

\* the position of the last newline of raw before p, 0 when there is none
RECURSIVE LastNL(_)
LastNL(p) ==
    IF p <= 1 THEN 0
    ELSE IF raw[p - 1] = NL THEN p - 1
    ELSE LastNL(p - 1)

\* the characters consumed so far end with a newline and then plain spaces
\* only: in InParagraph, a pending line break
PendingNL ==
    /\ LastNL(pos) > 0
    /\ \A j \in (LastNL(pos) + 1)..(pos - 1) : raw[j] = SP

\* the loop is about to consume a character in InParagraph
InParagraphStep == pc = "scan" /\ pos <= Len(raw) /\ state.kind = "InParagraph"

\* C15: in InParagraph, a marker after a newline and any number of plain
\* spaces pushes the Paragraph and opens an empty, not started list entry;
\* any other marker is appended to the text and nothing is pushed.
C15_MarkerAfterNewlineEndsParagraph ==
    [][ (InParagraphStep /\ IsMarker(raw[pos])) =>
            IF PendingNL
            THEN /\ result' = Append(result, Paragraph(state.text))
                 /\ state' = StInListEntry(<<>>, FALSE)
            ELSE /\ result' = result
                 /\ state'.kind = "InParagraph"
                 /\ state'.text = Append(state.text, raw[pos]) ]_vars

\* a paragraph whose text holds a marker has just been ended by a marker
\* that follows a newline and a space
C15_Witness ==
    /\ pc = "scan"
    /\ pos >= 5
    /\ state = StInListEntry(<<>>, FALSE)
    /\ IsMarker(raw[pos - 1])
    /\ raw[pos - 2] = SP
    /\ raw[pos - 3] = NL
    /\ Len(result) = 1
    /\ result[1].variant = "Paragraph"
    /\ \E j \in 1..Len(result[1].text) : IsMarker(result[1].text[j])

-----------------------------------------------------------------------------
(* C16 *)

\* the position of the last character consumed that is not part of a
\* pending line break
LastKept == IF PendingNL THEN LastNL(pos) - 1 ELSE pos - 1

\* C16: a fold contributes exactly one space, pushed together with the
\* character that follows the line break and its indentation; the line
\* break and the indentation themselves push nothing, and a pending line
\* break followed by a newline, a marker or the end of the input emits the
\* text as it is. So the text always ends with the input character before
\* the pending line break: a fold leaves no trailing space.
C16_FoldIsOneSpace ==
    /\ [](state.kind = "InParagraph" =>
              state.text[Len(state.text)] = raw[LastKept])
    /\ [][ InParagraphStep =>
              LET c == raw[pos]
              IN  /\ (PendingNL /\ c \notin {NL, SP} /\ ~IsMarker(c)) =>
                        /\ state'.text = state.text \o <<SP, c>>
                        /\ result' = result
                  /\ (c = NL /\ ~PendingNL) \/ (c = SP /\ PendingNL) =>
                        /\ state'.kind = "InParagraph"
                        /\ state'.text = state.text
                        /\ result' = result
                  /\ (PendingNL /\ (c = NL \/ IsMarker(c))) =>
                        result' = Append(result, Paragraph(state.text)) ]_vars
    /\ [][ (pc' = "done" /\ state.kind = "InParagraph") =>
              result' = Append(result, Paragraph(state.text)) ]_vars

\* a line break and a space of indentation have just been folded into one
\* space before the next character
C16_Witness ==
    /\ pc = "scan"
    /\ pos >= 5
    /\ state.kind = "InParagraph"
    /\ raw[pos - 2] = SP
    /\ raw[pos - 3] = NL
    /\ Len(state.text) = pos - 3
    /\ state.text[Len(state.text) - 1] = SP
    /\ state.text[Len(state.text)] = raw[pos - 1]

-----------------------------------------------------------------------------
(* C17 *)

\* what follows the marker of a line that begins with one, without the
\* whitespace before its first non-whitespace character
AfterMarker(l) == IF BareBullet(l) THEN <<>> ELSE MarkerContent(l)

\* the line being consumed, as far as it has been consumed
CurrentLine == SubSeq(raw, LastNL(pos) + 1, pos - 1)

\* C17: in InListEntry the accumulator is what follows the marker of the
\* current line, without its leading whitespace and otherwise verbatim; so
\* the k-th ListEntry returned is that of the k-th line that begins with a
\* marker, and a non-empty ListEntry text never begins with whitespace.
C17_ListEntryVerbatim ==
    /\ state.kind = "InListEntry" =>
          /\ MarkerInitial(CurrentLine)
          /\ state.text = AfterMarker(CurrentLine)
          /\ state.text_started <=> state.text # <<>>
    /\ \A i \in 1..Len(result) :
          (result[i].variant = "ListEntry" /\ result[i].text # <<>>) =>
              ~IsWhitespace(result[i].text[1])
    /\ Done =>
          LET bullets == SelectSeq(SplitLines(raw), MarkerInitial)
          IN  SelectSeq(result, IsListEntry) =
                  [k \in 1..Len(bullets) |-> ListEntry(AfterMarker(bullets[k]))]

\* a list entry returned with a marker inside and whitespace at the end of
\* its text, the whitespace after the line's marker skipped
C17_Witness ==
    /\ Done
    /\ Len(raw) >= 5
    /\ IsMarker(raw[1])
    /\ IsWhitespace(raw[2])
    /\ Len(result) = 1
    /\ result[1].variant = "ListEntry"
    /\ Len(result[1].text) = Len(raw) - 2
    /\ \E j \in 1..Len(result[1].text) : IsMarker(result[1].text[j])
    /\ IsWhitespace(result[1].text[Len(result[1].text)])

-----------------------------------------------------------------------------
(* C18 *)

\* the loop is about to consume a character in InListEntry
InListEntryStep == pc = "scan" /\ pos <= Len(raw) /\ state.kind = "InListEntry"

\* the line before the one that begins at pos
PreviousLine == SubSeq(raw, LastNL(pos - 1) + 1, pos - 2)

\* the loop is about to consume the first character of a line that follows
\* a line beginning with a marker, and it is not a space or a marker
ProseAfterBullet ==
    /\ pc = "scan"
    /\ pos <= Len(raw)
    /\ pos > 1
    /\ raw[pos - 1] = NL
    /\ MarkerInitial(PreviousLine)
    /\ raw[pos] \notin {NL, SP}
    /\ ~IsMarker(raw[pos])

\* C18: InListEntry is left on a newline and only then, to Init, pushing
\* exactly the ListEntry; it is never followed by InParagraph directly; and
\* a line that follows a list-entry line and begins with a character other
\* than a space or a marker finds the entry pushed and the state Init, and
\* seeds a new paragraph.
C18_ListEntryIsOneLine ==
    /\ [][ InListEntryStep =>
              IF raw[pos] = NL
              THEN /\ state' = StInit
                   /\ result' = Append(result, ListEntry(state.text))
              ELSE /\ state'.kind = "InListEntry"
                   /\ result' = result ]_vars
    /\ [][ state.kind = "InListEntry" => state'.kind # "InParagraph" ]_vars
    /\ [][ ProseAfterBullet =>
              /\ state = StInit
              /\ result # <<>>
              /\ result[Len(result)] = ListEntry(AfterMarker(PreviousLine))
              /\ state' = StInParagraph(<<raw[pos]>>, raw[pos])
              /\ result' = result ]_vars

\* a line after a list-entry line has just seeded a paragraph of its own
C18_Witness ==
    /\ pc = "scan"
    /\ pos >= 5
    /\ raw[pos - 2] = NL
    /\ state = StInParagraph(<<raw[pos - 1]>>, raw[pos - 1])
    /\ Len(result) = 1
    /\ result[1].variant = "ListEntry"
    /\ result[1].text # <<>>

-----------------------------------------------------------------------------
(* C19 *)

VariantOf(kind) == IF kind = "InParagraph" THEN "Paragraph" ELSE "ListEntry"

\* the transitions into InParagraph or InListEntry taken over the first n
\* characters of s, as the variants they open, in order
RECURSIVE Openings(_, _)
Openings(s, n) ==
    IF n = 0
    THEN [state |-> StInit, opened |-> <<>>]
    ELSE LET p == Openings(s, n - 1)
             o == StepChar(p.state, s[n])
         IN  [ state  |-> o.state,
               opened |-> IF o.state.kind # "Init" /\ o.state.kind # p.state.kind
                          THEN Append(p.opened, VariantOf(o.state.kind))
                          ELSE p.opened ]

Variants(r) == [i \in 1..Len(r) |-> r[i].variant]

\* the variant of the element still open, if any
OpenVariant ==
    IF Done \/ state.kind = "Init" THEN <<>> ELSE <<VariantOf(state.kind)>>

\* C19: the result grows only by appending, one element at a time; and the
\* variants of the elements pushed, followed by that of the open state,
\* are the variants opened so far, in the order opened.
C19_EmissionAccounting ==
    /\ [](Variants(result) \o OpenVariant = Openings(raw, pos - 1).opened)
    /\ [][ /\ Len(result') \in {Len(result), Len(result) + 1}
           /\ SubSeq(result', 1, Len(result)) = result ]_vars

\* a paragraph ended by a marker, the list entry, and a paragraph flushed
\* at the end of the input: three openings, three elements
C19_Witness ==
    /\ Done
    /\ \A k \in 1..Len(raw) : ~BreakAt(k)
    /\ Variants(result) = <<"Paragraph", "ListEntry", "Paragraph">>
    /\ Len(Openings(raw, Len(raw)).opened) = 3

-----------------------------------------------------------------------------
(* C20 *)

\* a newline met in a paragraph whose current line is empty or only plain
\* spaces pushes the Paragraph and returns to Init, whatever the number of
\* spaces; a newline ending a line with any other character pushes nothing
BlankLineEndsParagraph ==
    (InParagraphStep /\ raw[pos] = NL) =>
        IF PendingNL
        THEN /\ result' = Append(result, Paragraph(state.text))
             /\ state' = StInit
        ELSE /\ result' = result
             /\ state'.kind = "InParagraph"
             /\ state'.text = state.text

\* C20 as stated: in a paragraph, a space-only line ends the paragraph as
\* an empty line does, and no character other than a newline or a plain
\* space ever ends it.
C20_SpaceOnlyLineIsBlank_Orig ==
    [][ /\ BlankLineEndsParagraph
        /\ (InParagraphStep /\ raw[pos] \notin {NL, SP}) =>
               /\ result' = result
               /\ state'.kind = "InParagraph" ]_vars

\* C20 amended: in a paragraph, a space-only line ends the paragraph as an
\* empty line does; a character other than a newline or a plain space
\* keeps the paragraph open unless it is a marker that follows a pending
\* newline and plain spaces only.
C20_SpaceOnlyLineIsBlank ==
    [][ /\ BlankLineEndsParagraph
        /\ (InParagraphStep /\ raw[pos] \notin {NL, SP}
                /\ ~(IsMarker(raw[pos]) /\ PendingNL)) =>
               /\ result' = result
               /\ state'.kind = "InParagraph" ]_vars

\* a newline, a plain space and a newline have just ended a paragraph
C20_Witness ==
    /\ pc = "scan"
    /\ pos >= 5
    /\ raw[pos - 1] = NL
    /\ raw[pos - 2] = SP
    /\ raw[pos - 3] = NL
    /\ Scan(raw, pos - 2).state.kind = "InParagraph"
    /\ state = StInit
    /\ result # <<>>
    /\ result[Len(result)] = Paragraph(Scan(raw, pos - 2).state.text)

====
